---- MODULE Spec2Model ----
(***************************************************************************)
(* The image recovery pipeline of scripts/: the manifest builder           *)
(* (03_build_image_manifest.py), the two thread-pool downloaders           *)
(* (04_fetch_and_dedup_images.py, called "dedup" below, and                *)
(* 04_fetch_and_dedupe_images.py, called "dedupe"), and the archive        *)
(* fetcher (04c_fetch_images_wayback.py, called "wayback").                *)
(***************************************************************************)
EXTENDS Integers, Sequences, FiniteSets, TLC

\* ------------------------------------------------------------------ bounds
\* --retries is drawn from 0..MaxRetries
MaxRetries == 2
\* --workers is drawn from 0..MaxWorkers
MaxWorkers == 2
\* capture timestamps the snapshot index may answer with: 1..MaxTs
MaxTs == 2

\* the input of the manifest builder holds at most MaxImages <img> references
MaxImages == 2

\* ------------------------------------------------------------------ URLs
\* A URL is scheme://host/<stem><tail><rest>: tail is the end of the path
\* and rest is the text after it, cut into tokens ("?", "#", and the pieces
\* between them).
Url(scheme, stem, tail) ==
    [scheme |-> scheme, stem |-> stem, tail |-> tail, rest |-> <<>>]

\* url followed by a query string or a fragment
WithRest(url, rest) == [url EXCEPT !.rest = rest]

NoUrl == Url("", "", "")

\* the texts -\d{2,4}wi
SizeTails == {"-320wi", "-100wi"}

Separators == {"?", "#"}

ExtTails == {".jpg", ".jpeg", ".png", ".gif", ".webp", ".bmp", ".svg", ".tif", ".tiff"}

\* the end of the URL text, token by token
EndTokens(src) == <<src.tail>> \o src.rest

\* THUMB_RE matches at token i: -\d{2,4}wi with (?=$|[\?#]) behind it
THUMB_RE_match(toks, i) ==
    /\ toks[i] \in SizeTails
    /\ i = Len(toks) \/ toks[i + 1] \in Separators

THUMB_RE_search(src) ==
    \E i \in 1..Len(EndTokens(src)) : THUMB_RE_match(EndTokens(src), i)

\* THUMB_RE.sub(repl, src): every match is replaced
THUMB_RE_sub(repl, src) ==
    LET toks == EndTokens(src)
        new == [i \in 1..Len(toks) |->
                   IF THUMB_RE_match(toks, i) THEN repl ELSE toks[i]]
    IN [src EXCEPT !.tail = new[1], !.rest = Tail(new)]

\* THUMB_RE.sub("-popup", src) when THUMB_RE matches, else None
infer_full_from_thumb(src) ==
    IF src = NoUrl THEN NoUrl
    ELSE IF THUMB_RE_search(src) THEN THUMB_RE_sub("-popup", src)
    ELSE NoUrl

\* (mutant) the inferred full URL is preferred to the explicit one
choose_inferred_first(thumb_url, full_url, inferred_full) ==
    IF inferred_full # NoUrl THEN [url |-> inferred_full, kind |-> "inferred_full"]
    ELSE IF full_url # NoUrl THEN [url |-> full_url, kind |-> "full"]
    ELSE IF thumb_url # NoUrl THEN [url |-> thumb_url, kind |-> "thumb"]
    ELSE [url |-> NoUrl, kind |-> "none"]

choose_download_url(thumb_url, full_url, inferred_full) ==
    IF full_url # NoUrl THEN [url |-> full_url, kind |-> "full"]
    ELSE IF inferred_full # NoUrl THEN [url |-> inferred_full, kind |-> "inferred_full"]
    ELSE IF thumb_url # NoUrl THEN [url |-> thumb_url, kind |-> "thumb"]
    ELSE [url |-> NoUrl, kind |-> "none"]

\* The <img> references of the posts the downloaders are run on, in
\* document order (src, link_href).
Images ==
    << [src |-> Url("https", "a", "-320wi"), link_href |-> NoUrl],
       [src |-> Url("https", "b", ".jpg"),   link_href |-> NoUrl],
       [src |-> Url("https", "a", "-320wi"), link_href |-> Url("https", "b", ".jpg")],
       [src |-> NoUrl,                       link_href |-> NoUrl] >>

\* The <img> references an input of the manifest builder is made of
ThumbPool ==
    {NoUrl, Url("https", "a", "-320wi"), Url("https", "a", ".jpg"),
     WithRest(Url("https", "a", "-320wi"), <<"?", "-100wi">>)}

LinkPool == {NoUrl, Url("https", "b", ".jpg")}

ImagePool == [src : ThumbPool, link_href : LinkPool]

\* the inputs of the manifest builder: posts_raw.jsonl, as its images
Inputs == UNION {[1..n -> ImagePool] : n \in 0..MaxImages}

\* One row of work/image_manifest.csv
OccRow(img) ==
    LET inferred == infer_full_from_thumb(img.src)
        sel == choose_download_url(img.src, img.link_href, inferred)
    IN [thumb_url |-> img.src, full_url |-> img.link_href,
        inferred_full_url |-> inferred,
        chosen_download_url |-> sel.url, chosen_kind |-> sel.kind]

\* Python's str order on the URL text, piece by piece
SchemeRank(s) == CASE s = "" -> 0 [] s = "file" -> 1 [] s = "http" -> 2 [] s = "https" -> 3

StemRank(s) == CASE s = "" -> 0 [] s = "a" -> 1 [] s = "b" -> 2

TailRank(t) ==
    CASE t = "" -> 0 [] t = "#" -> 1 [] t = "-100wi" -> 2 [] t = "-320wi" -> 3
      [] t = "-popup" -> 4 [] t = ".jpg" -> 5 [] t = ".png" -> 6
      [] t = "?" -> 7 [] t = "v" -> 8

\* a is before b, token by token
RestLess(a, b) ==
    \E i \in 1..Len(b) :
        /\ i - 1 <= Len(a)
        /\ \A j \in 1..(i - 1) : a[j] = b[j]
        /\ i = Len(a) + 1 \/ TailRank(a[i]) < TailRank(b[i])

UrlLess(a, b) ==
    \/ SchemeRank(a.scheme) < SchemeRank(b.scheme)
    \/ /\ a.scheme = b.scheme
       /\ \/ StemRank(a.stem) < StemRank(b.stem)
          \/ /\ a.stem = b.stem
             /\ \/ TailRank(a.tail) < TailRank(b.tail)
                \/ a.tail = b.tail /\ RestLess(a.rest, b.rest)

\* d[k] = v
Assign(d, k, v) == (k :> v) @@ d

\* (mutant) a list: the entry is appended whether or not the key is there
ListAppend(d, k, v) == Append(d, [url |-> k, val |-> v])

\* (mutant) d[k] = v, whether or not k is in d
SetOverwrite(d, k, v) ==
    IF \E i \in 1..Len(d) : d[i].url = k
    THEN [i \in 1..Len(d) |-> IF d[i].url = k THEN [url |-> k, val |-> v] ELSE d[i]]
    ELSE Append(d, [url |-> k, val |-> v])

\* `if k not in d: d[k] = v`, d in insertion order
SetDefault(d, k, v) ==
    IF \E i \in 1..Len(d) : d[i].url = k THEN d
    ELSE Append(d, [url |-> k, val |-> v])

\* (mutant) an empty chosen URL is recorded like any other
ChosenAlways(chosen) == TRUE

\* `if chosen:`
Chosen(chosen) == chosen # NoUrl

\* The state of the manifest builder: its input, the rows of
\* image_manifest.csv written so far, the dict `unique`, and the file
\* image_urls_unique.csv (<<>> while absent, else <<rows>>).
NewManifest(input) ==
    [input |-> input, rows |-> <<>>, unique |-> <<>>, uniq_csv |-> <<>>]

\* main(): one iteration of `for i, img in enumerate(images)`
AddRow(m) ==
    LET n == Len(m.rows) + 1
        row == OccRow(m.input[n])
    IN [m EXCEPT
          !.rows = Append(@, row),
          !.unique = IF Chosen(row.chosen_download_url)
                     THEN SetDefault(@, row.chosen_download_url,
                                     [kind |-> row.chosen_kind, example |-> n])
                     ELSE @]

\* (mutant) the entries in the order of insertion
UnsortedItems(items) == items

\* sorted(items): the entries in ascending order of URL
RECURSIVE SortedItems(_)
SortedItems(items) ==
    IF items = <<>> THEN <<>>
    ELSE LET i == CHOOSE x \in 1..Len(items) :
                     \A y \in 1..Len(items) : ~UrlLess(items[y].url, items[x].url)
             others == [j \in 1..(Len(items) - 1) |->
                           IF j < i THEN items[j] ELSE items[j + 1]]
         IN <<items[i]>> \o SortedItems(others)

\* main(): "Emit unique URL list"
EmitUniqueCsv(m) == [m EXCEPT !.uniq_csv = <<SortedItems(m.unique)>>]

\* the manifest builder run to its end on imgs
Built(imgs) ==
    LET B[n \in 0..Len(imgs)] ==
            IF n = 0 THEN NewManifest(imgs) ELSE AddRow(B[n - 1])
    IN EmitUniqueCsv(B[Len(imgs)])

\* the rows of image_urls_unique.csv as a fetch script reads them
UniqRows(m) == IF m.uniq_csv = <<>> THEN <<>> ELSE m.uniq_csv[1]

\* The URLs a fetch script works on: the pool scripts load the rows into the
\* dict `unique`, the archive fetcher into a list; rows without a URL are
\* skipped.
LoadUnique(script, rows) ==
    LET L[n \in 0..Len(rows)] ==
            IF n = 0 THEN <<>>
            ELSE LET url == rows[n].url
                     sofar == L[n - 1]
                 IN IF url = NoUrl THEN sofar
                    ELSE IF script # "wayback"
                            /\ \E i \in 1..Len(sofar) : sofar[i] = url
                         THEN sofar
                    ELSE Append(sofar, url)
    IN L[Len(rows)]

\* ------------------------------------------------------------------ bytes
\* Response bodies: the empty body and a one-byte body
Payloads == {<<>>, <<1>>}

sha1_bytes(data) ==
    CASE data = <<>> -> "da39a3ee"
      [] data = <<1>> -> "bf8b4530"

ProperPrefixes(data) == {SubSeq(data, 1, n) : n \in 0..(Len(data) - 1)}

CTypes == {"", "image/png"}

\* CT_EXT[ct] if ct in CT_EXT, else ""
CT_EXT(ct) ==
    CASE ct = "image/png" -> ".png" [] ct = "image/jpeg" -> ".jpg" [] OTHER -> ""

\* mimetypes.guess_extension(ct) or ""
mimetypes_guess_extension(ct) ==
    CASE ct = "text/html" -> ".html"
      [] ct = "application/octet-stream" -> ".bin"
      [] ct = "image/png" -> ".png"
      [] ct = "image/jpeg" -> ".jpg"
      [] OTHER -> ""

\* content_type.split(";")[0].strip().lower()
CtNorm(content_type) ==
    CASE content_type = "Image/PNG; charset=binary" -> "image/png"
      [] OTHER -> content_type

\* str.lower() of the end of a path
Lower(t) == CASE t = ".JPG" -> ".jpg" [] OTHER -> t

\* the suffix of urlsplit(url).path.lower() that is in the tuple of
\* extensions, or ""
PathExt(url) == IF Lower(url.tail) \in ExtTails THEN Lower(url.tail) ELSE ""

\* content type first, URL path suffix second, ".bin" third
guess_ext(url, content_type) ==
    IF content_type # "" /\ CT_EXT(CtNorm(content_type)) # ""
    THEN CT_EXT(CtNorm(content_type))
    ELSE IF content_type # "" /\ mimetypes_guess_extension(CtNorm(content_type)) # ""
         THEN mimetypes_guess_extension(CtNorm(content_type))
    ELSE IF PathExt(url) # ""
         THEN (IF PathExt(url) = ".jpeg" THEN ".jpg" ELSE PathExt(url))
    ELSE ".bin"

\* the raw file name: the last path segment
safe_filename(url) == url.stem \o url.tail

\* ------------------------------------------------------------------ transport
\* What one urlopen() call can end in: a complete body, an HTTPError with
\* its code, a TLS failure, or any other connection error or timeout.
Resp(kind, status, body, ctype) ==
    [kind |-> kind, status |-> status, body |-> body, ctype |-> ctype]

OkResponses == {Resp("ok", 200, b, c) : b \in Payloads, c \in CTypes}

ErrResponses ==
    {Resp("http", 404, <<>>, ""), Resp("http", 500, <<>>, ""),
     Resp("ssl", 0, <<>>, ""), Resp("url", 0, <<>>, "")}

Responses == OkResponses \cup ErrResponses

NoResp == Resp("", 0, <<>>, "")

\* the text of one error, as far as the code looks at it
ErrText(r) == <<r.kind, r.status>>

\* "SSL" in error
MentionsSSL(error) == \E i \in 1..Len(error) : error[i][1] = "ssl"

\* DLResult / DownloadResult; data is <<>> for None and <<bytes>> otherwise
Result(ok, status, sha1, ext, bytes_len, error, content_type, data, fb) ==
    [ok |-> ok, status |-> status, sha1 |-> sha1, ext |-> ext,
     bytes_len |-> bytes_len, error |-> error, content_type |-> content_type,
     data |-> data, used_http_fallback |-> fb]

Failure(status, error) == Result(FALSE, status, "", "", 0, error, "", <<>>, FALSE)

NoResult == Failure(-1, <<>>)

\* the success branch of fetch_once
Success(url, r, keep, fb) ==
    Result(TRUE, r.status, sha1_bytes(r.body), guess_ext(url, r.ctype),
           Len(r.body), <<>>, r.ctype, IF keep THEN <<r.body>> ELSE <<>>, fb)

\* ------------------------------------------------------------------ state
VARIABLES
    manifest,       \* the manifest builder's input, memory and output files
    unique,         \* the URLs of `unique` of the fetch script, in order
    transport,      \* the answers of the network: recorded, or played back
    cfg,            \* the command line: script, retries, workers, force_http
    phase,          \* "fetch", "persist", "wayback", "done" or "stopped"
    pc,             \* per URL: where its fetch()/fetch_url() call is
    attempt,        \* per URL: the loop variable `attempt` (0 outside the call)
    last_err,       \* per URL: the local `last_err` (<<>> outside the call)
    ret,            \* per URL: the value the call returned
    net,            \* per URL: what is known of the requests issued for it
    delay,          \* per URL: the argument of the time.sleep() in progress
    results,        \* the dict `results`, in insertion order
    failures,       \* the list `failures` / `fails`
    pi,             \* index of the next item of the persist / wayback loop
    chosen_to_new,  \* the dict `chosen_to_new` / `chosen_map`
    dedup_written,  \* the counter `dedup_written`: dedup files written
    store,          \* the dedup directory: file name -> bytes
    raw,            \* the raw downloads directory: file name -> bytes
    ledger,         \* the failures CSV: <<>> when absent, else <<rows>>
    url_map         \* the url_map CSV: <<>> when absent, else <<mapping>>

vars == <<manifest, unique, transport, cfg, phase, pc, attempt, last_err, ret, net, delay, results,
          failures, pi, chosen_to_new, dedup_written, store, raw, ledger, url_map>>

workerVars == <<pc, attempt, last_err, ret, net, delay>>

mainVars == <<results, failures, pi, chosen_to_new, dedup_written>>

diskVars == <<store, raw, ledger, url_map>>

\* work/image_manifest.csv, as the fetch scripts read it
Occurrences == manifest.rows

Worklist == unique

WorkSet == {Worklist[i] : i \in 1..Len(Worklist)}

IndexOf(u) == CHOOSE i \in 1..Len(Worklist) : Worklist[i] = u

PoolScripts == {"dedup", "dedupe"}

Configs ==
    {c \in [script : PoolScripts \cup {"wayback"}, retries : 0..MaxRetries,
            workers : 0..MaxWorkers, force_http : BOOLEAN] :
        /\ c.script = "wayback" => c.retries = 0 /\ c.workers = 0
        /\ c.script # "dedupe" => ~c.force_http}

\* per URL, for the whole run: run5xx is the number of direct requests
\* the pool issued for it if every one of them got a 5xx (counted up to
\* MaxRetries + 2), and -1 otherwise; runUrlErr is the same for requests
\* that ended in a connection error or a timeout; refetches is the number
\* of requests the persist loop issued for it; lookups is the number of
\* queries of the snapshot index for it, cdx is <<>> or holds the answer of
\* the snapshot index to the last of them, archived is the number of
\* requests issued for a retrieval location of it, and fallbacks is the
\* number of requests issued for its http:// variant, counted up to 2, and
\* tries the number of direct requests the pool issued for it, both while
\* no request for it has succeeded, and 0 once one has
NoNet ==
    [run5xx |-> 0, runUrlErr |-> 0, refetches |-> 0, lookups |-> 0, cdx |-> <<>>,
     archived |-> 0, fallbacks |-> 0, tries |-> 0]

\* The network answers as it likes and nothing is recorded (mode "off"), or
\* the answers given for each URL are recorded in order (mode "rec"), or
\* the recorded answers are given again in that order (mode "play"); first
\* is <<>> or holds the outputs of the recorded run.
Transport(mode, log, pos, first) ==
    [mode |-> mode, log |-> log, pos |-> pos, first |-> first]

Init ==
    /\ manifest = Built(Images)
    /\ cfg \in Configs
    /\ unique = LoadUnique(cfg.script, UniqRows(manifest))
    /\ transport = Transport("off", [u \in WorkSet |-> <<>>],
                             [u \in WorkSet |-> 0], <<>>)
    /\ phase = IF cfg.script = "wayback" THEN "wayback" ELSE "fetch"
    /\ pc = [u \in WorkSet |-> "queued"]
    /\ attempt = [u \in WorkSet |-> 0]
    /\ last_err = [u \in WorkSet |-> <<>>]
    /\ ret = [u \in WorkSet |-> NoResult]
    /\ net = [u \in WorkSet |-> NoNet]
    /\ delay = [u \in WorkSet |-> 0]
    /\ results = <<>>
    /\ failures = <<>>
    /\ pi = 1
    /\ chosen_to_new = <<>>
    /\ dedup_written = 0
    /\ store = <<>>
    /\ raw = <<>>
    /\ ledger = <<>>
    /\ url_map = <<>>

\* ------------------------------------------------------------------ the pool
\* (mutant) the pool has one thread more than asked for
PoolSizePlusOne == IF cfg.workers > 1 THEN cfg.workers + 1 ELSE 2

\* ThreadPoolExecutor(max_workers=max(1, args.workers))
PoolSize == IF cfg.workers > 1 THEN cfg.workers ELSE 1

Running == {u \in WorkSet : pc[u] \in {"attempt", "fallback", "sleep"}}

Is4xx(status) == 400 <= status /\ status < 500

Is5xx(status) == 500 <= status /\ status < 600

\* one more direct request of u was answered with r
Answered(u, r) ==
    [net[u] EXCEPT
        !.run5xx =
            IF @ >= 0 /\ r.kind = "http" /\ Is5xx(r.status)
            THEN (IF @ < MaxRetries + 2 THEN @ + 1 ELSE @)
            ELSE -1,
        !.runUrlErr =
            IF @ >= 0 /\ r.kind = "url"
            THEN (IF @ < MaxRetries + 2 THEN @ + 1 ELSE @)
            ELSE -1,
        !.tries = IF r.kind = "ok" THEN 0
                  ELSE IF @ < MaxRetries + 2 THEN @ + 1 ELSE @,
        !.fallbacks = IF r.kind = "ok" THEN 0 ELSE @]

\* the answers the network can give to the k-th next request for u
Offered(u, k) ==
    IF transport.mode = "play"
    THEN {transport.log[u][transport.pos[u] + k]}
    ELSE Responses

\* the requests for u were answered with `answers`, in that order
Consume(u, answers) ==
    [transport EXCEPT
        !.log[u] = IF transport.mode = "rec" THEN @ \o answers ELSE @,
        !.pos[u] = IF transport.mode = "play" THEN @ + Len(answers) ELSE @]

\* (mutant) the loop stops one iteration early
MoreAttemptsOffByOne(a) == a + 1 < cfg.retries

\* range(retries + 1) has a value after `a`
MoreAttempts(a) == a + 1 < cfg.retries + 1

\* (mutant) the loop variable is not advanced
StuckAttempt(a) == a

\* the value of range(retries + 1) after `a`
NextAttempt(a) == a + 1

\* (mutant) the same delay after every attempt
ConstantDelay(a) == 1

\* dedupe, fetch(): the argument of time.sleep(1 + attempt)
fetch_delay(a) == 1 + a

\* (mutant) the delay is the loop variable
ZeroBasedDelay(a) == 1 * a

\* dedup, fetch_url(): the argument of time.sleep(1.0 * (attempt + 1))
fetch_url_delay(a) == 1 * (a + 1)

\* the call for u returns res; its locals are gone
Returns(u, res) ==
    /\ ret' = [ret EXCEPT ![u] = res]
    /\ pc' = [pc EXCEPT ![u] = "returned"]
    /\ attempt' = [attempt EXCEPT ![u] = 0]
    /\ last_err' = [last_err EXCEPT ![u] = <<>>]
    /\ delay' = [delay EXCEPT ![u] = 0]

\* the call for u goes on with the http:// request, with last_err = err
GoesOn(u, err) ==
    /\ pc' = [pc EXCEPT ![u] = "fallback"]
    /\ last_err' = [last_err EXCEPT ![u] = err]
    /\ UNCHANGED <<ret, attempt, delay>>

\* the call for u enters time.sleep(d), with last_err = err
Sleeps(u, d, err) ==
    /\ pc' = [pc EXCEPT ![u] = "sleep"]
    /\ last_err' = [last_err EXCEPT ![u] = err]
    /\ delay' = [delay EXCEPT ![u] = d]
    /\ UNCHANGED <<ret, attempt>>

\* A free worker thread takes the oldest queued call and enters its loop.
Start(u) ==
    /\ phase = "fetch"
    /\ pc[u] = "queued"
    /\ \A i \in 1..(IndexOf(u) - 1) : pc[Worklist[i]] # "queued"
    /\ Cardinality(Running) < PoolSize
    /\ pc' = [pc EXCEPT ![u] = "attempt"]
    /\ UNCHANGED <<manifest, unique, transport, cfg, phase, attempt, last_err, ret, net, delay, mainVars, diskVars>>

\* dedupe, fetch(): res = fetch_once(url, ...) and what the loop body does
\* with it, up to the http:// request or the call of time.sleep()
FetchOnce(u) ==
    /\ phase = "fetch"
    /\ cfg.script = "dedupe"
    /\ pc[u] = "attempt"
    /\ \E r \in Offered(u, 1) :
        /\ net' = [net EXCEPT ![u] = Answered(u, r)]
        /\ transport' = Consume(u, <<r>>)
        /\ IF r.kind = "ok"
           THEN Returns(u, Success(u, r, TRUE, FALSE))
           ELSE IF /\ MentionsSSL(<<ErrText(r)>>)
                   /\ cfg.force_http
                   /\ u.scheme = "https"
           THEN GoesOn(u, <<ErrText(r)>>)
           ELSE Sleeps(u, fetch_delay(attempt[u]), <<ErrText(r)>>)
    /\ UNCHANGED <<manifest, unique, cfg, phase, mainVars, diskVars>>

\* dedupe, fetch(): res2 = fetch_once(http_url, ...)
HttpFallback(u) ==
    /\ phase = "fetch"
    /\ cfg.script = "dedupe"
    /\ pc[u] = "fallback"
    /\ \E r2 \in Offered(u, 1) :
        /\ transport' = Consume(u, <<r2>>)
        /\ net' = [net EXCEPT
                      ![u].fallbacks = IF r2.kind = "ok" THEN 0
                                       ELSE IF @ < 2 THEN @ + 1 ELSE @,
                      ![u].tries = IF r2.kind = "ok" THEN 0 ELSE @]
        /\ IF r2.kind = "ok"
           THEN Returns(u, Success([u EXCEPT !.scheme = "http"], r2, TRUE, TRUE))
           ELSE Sleeps(u, fetch_delay(attempt[u]), last_err[u] \o <<ErrText(r2)>>)
    /\ UNCHANGED <<manifest, unique, cfg, phase, mainVars, diskVars>>

\* dedupe, fetch(): time.sleep(1 + attempt) is over; the next iteration, or
\* the return after the loop.
Backoff(u) ==
    /\ phase = "fetch"
    /\ cfg.script = "dedupe"
    /\ pc[u] = "sleep"
    /\ IF MoreAttempts(attempt[u])
       THEN /\ attempt' = [attempt EXCEPT ![u] = NextAttempt(@)]
            /\ pc' = [pc EXCEPT ![u] = "attempt"]
            /\ delay' = [delay EXCEPT ![u] = 0]
            /\ UNCHANGED <<ret, last_err>>
       ELSE Returns(u, Failure(0, last_err[u]))
    /\ UNCHANGED <<manifest, unique, transport, cfg, phase, net, mainVars, diskVars>>

\* dedup, fetch_url(): one iteration of the loop up to its sleep or return
FetchUrlAttempt(u) ==
    /\ phase = "fetch"
    /\ cfg.script = "dedup"
    /\ pc[u] = "attempt"
    /\ \E r \in Offered(u, 1) :
        /\ net' = [net EXCEPT ![u] = Answered(u, r)]
        /\ transport' = Consume(u, <<r>>)
        /\ IF r.kind = "ok"
           THEN Returns(u, Success(u, r, FALSE, FALSE))
           ELSE IF r.kind = "http" /\ Is4xx(r.status)
           THEN Returns(u, Failure(r.status, <<ErrText(r)>>))
           ELSE IF attempt[u] < cfg.retries
           THEN Sleeps(u, fetch_url_delay(attempt[u]), <<ErrText(r)>>)
           ELSE Returns(u, Failure(0, <<ErrText(r)>>))
    /\ UNCHANGED <<manifest, unique, cfg, phase, mainVars, diskVars>>

\* dedup, fetch_url(): time.sleep(1.0 * (attempt + 1)) is over; the next
\* iteration
FetchUrlBackoff(u) ==
    /\ phase = "fetch"
    /\ cfg.script = "dedup"
    /\ pc[u] = "sleep"
    /\ attempt' = [attempt EXCEPT ![u] = NextAttempt(@)]
    /\ pc' = [pc EXCEPT ![u] = "attempt"]
    /\ delay' = [delay EXCEPT ![u] = 0]
    /\ UNCHANGED <<manifest, unique, transport, cfg, phase, last_err, ret, net, mainVars, diskVars>>

\* results[url] = res
DictSet(d, k, v) ==
    IF \E i \in 1..Len(d) : d[i].url = k
    THEN [i \in 1..Len(d) |-> IF d[i].url = k THEN [url |-> k, res |-> v] ELSE d[i]]
    ELSE Append(d, [url |-> k, res |-> v])

\* (mutant) the error text is left out of the row
FailRowNoReason(url, status, error) == [url |-> url, status |-> status, error |-> <<>>]

\* one row of the failures CSV
FailRow(url, status, error) == [url |-> url, status |-> status, error |-> error]

\* main(): one iteration of `for fut in as_completed(futs)`
Collect(u) ==
    /\ phase = "fetch"
    /\ pc[u] = "returned"
    /\ pc' = [pc EXCEPT ![u] = "collected"]
    /\ results' = DictSet(results, u, ret[u])
    /\ failures' = IF cfg.script = "dedup" /\ ~ret[u].ok
                   THEN Append(failures, FailRow(u, ret[u].status, ret[u].error))
                   ELSE failures
    /\ UNCHANGED <<manifest, unique, transport, cfg, phase, attempt, last_err, ret, net, delay,
                   pi, chosen_to_new, dedup_written, diskVars>>

\* (mutant) the loop is left at the first future yielded
SomeCollected == \E u \in WorkSet : pc[u] = "collected"

\* as_completed() is exhausted: every future has been yielded
AllCollected == \A u \in WorkSet : pc[u] = "collected"

\* (mutant) the rows of the results that are ok
OkRows(d) ==
    LET F[n \in 0..Len(d)] ==
            IF n = 0 THEN <<>>
            ELSE IF d[n].res.ok
                 THEN Append(F[n - 1], FailRow(d[n].url, d[n].res.status,
                                               d[n].res.error))
                 ELSE F[n - 1]
    IN F[Len(d)]

\* the rows dedupe writes to download_failures.csv
FailedRows(d) ==
    LET idx == {i \in 1..Len(d) : ~d[i].res.ok}
        F[n \in 0..Len(d)] ==
            IF n = 0 THEN <<>>
            ELSE IF n \in idx
                 THEN Append(F[n - 1], FailRow(d[n].url, d[n].res.status,
                                               d[n].res.error))
                 ELSE F[n - 1]
    IN F[Len(d)]

\* main(): leaving the `with ThreadPoolExecutor` block; dedupe goes on to
\* write download_failures.csv before its persist loop.
JoinPool ==
    /\ phase = "fetch"
    /\ AllCollected
    /\ phase' = "persist"
    /\ IF cfg.script = "dedupe"
       THEN ledger' = <<FailedRows(results)>>
       ELSE UNCHANGED ledger
    /\ UNCHANGED <<manifest, unique, transport, cfg, workerVars, mainVars, store, raw, url_map>>

\* ------------------------------------------------------------------ persist
\* (mutant) the extension is left out of the file name
NameWithoutExt(sha1, ext) == <<sha1, "">>

\* (mutant) the file is named by its extension alone
NameByExt(sha1, ext) == <<"", ext>>

\* the dedup file name <sha1><ext>
DedupName(sha1, ext) == <<sha1, ext>>

\* (mutant) the file is written whether or not it exists
WriteAlways(dir, name, data) == Assign(dir, name, data)

\* (mutant) no file is ever found to exist
NeverExists(dir, name) == FALSE

\* path.exists()
Exists(dir, name) == name \in DOMAIN dir

\* `if not path.exists(): write data`
WriteIfAbsent(dir, name, data) ==
    IF Exists(dir, name) THEN dir ELSE Assign(dir, name, data)

\* safe_filename(urlsplit(url).path) or dedup_name
RawName(url, dedup_name) ==
    IF safe_filename(url) # "" THEN <<safe_filename(url), "">> ELSE dedup_name

\* one value of chosen_to_new / chosen_map
NewFile(filename, new_url, sha1, bytes_len, ctype) ==
    [filename |-> filename, new_url |-> new_url, sha1 |-> sha1,
     bytes_len |-> bytes_len, content_type |-> ctype]

\* dedupe, main(): one iteration of `for url, r in results.items()`
PersistDedupe ==
    /\ phase = "persist"
    /\ cfg.script = "dedupe"
    /\ pi <= Len(results)
    /\ pi' = pi + 1
    /\ LET url == results[pi].url
           r == results[pi].res
           dedup_name == DedupName(r.sha1, r.ext)
       IN IF ~r.ok \/ r.data = <<>>
          THEN UNCHANGED <<store, raw, dedup_written, chosen_to_new>>
          ELSE /\ store' = WriteIfAbsent(store, dedup_name, r.data[1])
               /\ dedup_written' = IF Exists(store, dedup_name)
                                   THEN dedup_written ELSE dedup_written + 1
               /\ raw' = WriteIfAbsent(raw, RawName(url, dedup_name), r.data[1])
               /\ chosen_to_new' = Assign(chosen_to_new, url,
                      NewFile(dedup_name, "", r.sha1, r.bytes_len, r.content_type))
    /\ UNCHANGED <<manifest, unique, transport, cfg, phase, workerVars, results, failures, ledger, url_map>>

\* dedup, fetch_url(url, timeout, 0): the result of its single attempt
FetchUrlNoRetry(url, r) ==
    IF r.kind = "ok" THEN Success(url, r, FALSE, FALSE)
    ELSE IF r.kind = "http" /\ Is4xx(r.status) THEN Failure(r.status, <<ErrText(r)>>)
    ELSE Failure(0, <<ErrText(r)>>)

\* dedup, main(): one iteration of `for url, res in results.items()`; r2
\* answers the re-fetch and r3 the request that reads the bytes to write.
PersistDedup ==
    /\ phase = "persist"
    /\ cfg.script = "dedup"
    /\ pi <= Len(results)
    /\ pi' = pi + 1
    /\ LET url == results[pi].url
           res == results[pi].res
           dedup_name == DedupName(res.sha1, res.ext)
       IN IF ~res.ok
          THEN UNCHANGED <<store, raw, dedup_written, failures, net, transport>>
          ELSE \E r2 \in Offered(url, 1) :
                 LET refetch == FetchUrlNoRetry(url, r2)
                 IN IF ~refetch.ok
                    THEN /\ failures' = Append(failures,
                                FailRow(url, refetch.status, refetch.error))
                         /\ net' = [net EXCEPT ![url].refetches = @ + 1]
                         /\ transport' = Consume(url, <<r2>>)
                         /\ UNCHANGED <<store, raw, dedup_written>>
                    ELSE \E r3 \in Offered(url, 2) :
                           /\ net' = [net EXCEPT ![url].refetches = @ + 2]
                           /\ transport' = Consume(url, <<r2, r3>>)
                           /\ IF r3.kind # "ok"
                              THEN /\ failures' = Append(failures,
                                        FailRow(url, 0, <<<<"refetch-bytes", 0>>, ErrText(r3)>>))
                                   /\ UNCHANGED <<store, raw, dedup_written>>
                              ELSE /\ store' = WriteIfAbsent(store, dedup_name, r3.body)
                                   /\ dedup_written' = IF Exists(store, dedup_name)
                                          THEN dedup_written ELSE dedup_written + 1
                                   /\ raw' = WriteIfAbsent(raw, RawName(url, dedup_name), r3.body)
                                   /\ UNCHANGED failures
    /\ UNCHANGED <<manifest, unique, cfg, phase, pc, attempt, last_err, ret, delay, results,
                   chosen_to_new, ledger, url_map>>

\* ------------------------------------------------------------------ expand
\* (mutant) the thumbnail is not expanded
FieldsWithoutThumb == <<"full_url", "inferred_full_url", "chosen_download_url">>

Fields == <<"thumb_url", "full_url", "inferred_full_url", "chosen_download_url">>

\* (mutant) an empty field is expanded like any other
PresentAlways(original) == TRUE

\* `if not original: continue`
Present(original) == original # NoUrl

\* (mutant) mapping[original] = entry: the last writer wins
mapping_assign(mapping, original, entry) == Assign(mapping, original, entry)

\* mapping.setdefault(original, entry)
mapping_setdefault(mapping, original, entry) ==
    IF original \in DOMAIN mapping THEN mapping
    ELSE Assign(mapping, original, entry)

\* The rewrite table: for each occurrence row whose chosen URL is a key of
\* c2n, each non-empty URL field, first writer wins (mapping.setdefault).
ExpandMapping(c2n) ==
    LET n == Len(Occurrences) * Len(Fields)
        M[k \in 0..n] ==
            IF k = 0 THEN <<>>
            ELSE LET row == Occurrences[((k - 1) \div Len(Fields)) + 1]
                     original == row[Fields[((k - 1) % Len(Fields)) + 1]]
                     chosen == row.chosen_download_url
                     mapping == M[k - 1]
                 IN IF \/ chosen = NoUrl
                       \/ chosen \notin DOMAIN c2n
                       \/ ~Present(original)
                    THEN mapping
                    ELSE mapping_setdefault(mapping, original,
                                [filename |-> c2n[chosen].filename,
                                 new_url |-> c2n[chosen].new_url,
                                 sha1 |-> c2n[chosen].sha1,
                                 bytes_len |-> c2n[chosen].bytes_len,
                                 content_type |-> c2n[chosen].content_type,
                                 kind |-> row.chosen_kind])
    IN M[n]

\* dedup: chosen_to_new holds every URL whose first fetch was ok
ChosenFromResults(d) ==
    LET C[k \in 0..Len(d)] ==
            IF k = 0 THEN <<>>
            ELSE IF ~d[k].res.ok THEN C[k - 1]
            ELSE Assign(C[k - 1], d[k].url,
                        NewFile(DedupName(d[k].res.sha1, d[k].res.ext), "",
                                d[k].res.sha1, d[k].res.bytes_len,
                                d[k].res.content_type))
    IN C[Len(d)]

\* dedupe, main(): after the persist loop, build and write url_map.csv
FinishDedupe ==
    /\ phase = "persist"
    /\ cfg.script = "dedupe"
    /\ pi > Len(results)
    /\ url_map' = <<ExpandMapping(chosen_to_new)>>
    /\ phase' = "done"
    /\ UNCHANGED <<manifest, unique, transport, cfg, workerVars, mainVars, store, raw, ledger>>

\* dedup, main(): after the persist loop, write download_failures.csv if
\* there are failures, build chosen_to_new, build and write url_map.csv
FinishDedup ==
    /\ phase = "persist"
    /\ cfg.script = "dedup"
    /\ pi > Len(results)
    /\ ledger' = IF failures # <<>> THEN <<failures>> ELSE ledger
    /\ chosen_to_new' = ChosenFromResults(results)
    /\ url_map' = <<ExpandMapping(chosen_to_new')>>
    /\ phase' = "done"
    /\ UNCHANGED <<manifest, unique, transport, cfg, workerVars, results, failures, pi, dedup_written, store, raw>>

\* ------------------------------------------------------------------ wayback
\* What the snapshot index answers: the status of the request and the
\* capture timestamps of the rows after the header row.
CdxAnswers ==
    {[status |-> 0, rows |-> {}]}
        \cup {[status |-> 200, rows |-> R] : R \in SUBSET (1..MaxTs)}

NoWb == [ts |-> 0, url |-> NoUrl]

\* the answers the snapshot index can give to the next query for u
OfferedCdx(u) ==
    IF transport.mode = "play"
    THEN {transport.log[u][transport.pos[u] + 1]}
    ELSE CdxAnswers

\* (mutant) the rows are sorted in ascending order
OldestTs(rows) == CHOOSE t \in rows : \A t2 \in rows : t <= t2

\* rows.sort(key=lambda r: r[1], reverse=True); rows[0][1]
NewestTs(rows) == CHOOSE t \in rows : \A t2 \in rows : t2 <= t

\* the newest capture's retrieval location, or None
find_wayback_best(url, cdx) ==
    IF cdx.status # 200 THEN NoWb
    ELSE IF cdx.rows = {} THEN NoWb
    ELSE [ts |-> NewestTs(cdx.rows), url |-> url]

\* (mutant) a lookup without a result is not told from one with a result
MissedNever(wb) == FALSE

\* `if not wb:`
Missed(wb) == wb = NoWb

\* http_get(): (status, data, ctype-or-error)
http_get(r) ==
    IF r.kind = "ok" THEN [status |-> r.status, data |-> r.body, ctype |-> r.ctype]
    ELSE IF r.kind = "http" THEN [status |-> r.status, data |-> <<>>, ctype |-> ""]
    ELSE [status |-> 0, data |-> <<>>, ctype |-> "ERR"]

\* wayback, main(): one iteration of `for i, (u, kind) in enumerate(unique, 1)`
WaybackStep ==
    /\ phase = "wayback"
    /\ pi <= Len(Worklist)
    /\ pi' = pi + 1
    /\ LET u == Worklist[pi]
       IN \E cdx \in OfferedCdx(u) :
            LET wb == find_wayback_best(u, cdx)
            IN /\ net' = [net EXCEPT ![u].lookups = @ + 1, ![u].cdx = <<cdx>>,
                                      ![u].archived = IF Missed(wb) THEN @ ELSE @ + 1]
               /\ IF Missed(wb)
                  THEN /\ failures' = Append(failures,
                              FailRow(u, 0, <<<<"no_wayback_snapshot", 0>>>>))
                       /\ transport' = Consume(u, <<cdx>>)
                       /\ UNCHANGED <<store, raw, chosen_to_new, dedup_written>>
                  ELSE \E r \in Offered(u, 2) :
                         LET got == http_get(r)
                             digest == sha1_bytes(got.data)
                             ext == guess_ext(u, got.ctype)
                             dedup_name == DedupName(digest, ext)
                         IN /\ transport' = Consume(u, <<cdx, r>>)
                            /\ IF got.status # 200 \/ got.data = <<>>
                               THEN /\ failures' = Append(failures,
                                          FailRow(u, got.status, <<<<"wb_fetch_fail", wb.ts>>>>))
                                    /\ UNCHANGED <<store, raw, chosen_to_new, dedup_written>>
                               ELSE /\ raw' = WriteIfAbsent(raw,
                                          <<safe_filename(u), ext>>, got.data)
                                    /\ store' = WriteIfAbsent(store, dedup_name, got.data)
                                    /\ dedup_written' = IF Exists(store, dedup_name)
                                          THEN dedup_written ELSE dedup_written + 1
                                    /\ chosen_to_new' = Assign(chosen_to_new, u,
                                          NewFile(dedup_name, wb, digest,
                                                  Len(got.data), got.ctype))
                                    /\ UNCHANGED failures
    /\ UNCHANGED <<manifest, unique, cfg, phase, pc, attempt, last_err, ret, delay,
                   results, ledger, url_map>>

\* wayback, main(): after the loop, write url_map_wayback.csv and
\* wayback_failures.csv
FinishWayback ==
    /\ phase = "wayback"
    /\ pi > Len(Worklist)
    /\ url_map' = <<ExpandMapping(chosen_to_new)>>
    /\ ledger' = <<failures>>
    /\ phase' = "done"
    /\ UNCHANGED <<manifest, unique, transport, cfg, workerVars, mainVars, store, raw>>

\* ------------------------------------------------------------------ interrupt
\* The process is gone: nothing of its memory is left, the files stay.
Forget ==
    /\ phase' = "stopped"
    /\ pc' = [u \in WorkSet |-> "queued"]
    /\ attempt' = [u \in WorkSet |-> 0]
    /\ last_err' = [u \in WorkSet |-> <<>>]
    /\ ret' = [u \in WorkSet |-> NoResult]
    /\ net' = [u \in WorkSet |-> NoNet]
    /\ delay' = [u \in WorkSet |-> 0]
    /\ results' = <<>>
    /\ failures' = <<>>
    /\ pi' = 1
    /\ chosen_to_new' = <<>>
    /\ dedup_written' = 0

\* The operator stops the run between two steps.
Interrupt ==
    /\ phase \in {"fetch", "persist", "wayback"}
    /\ Forget
    /\ UNCHANGED <<manifest, unique, transport, cfg, diskVars>>

\* The dedup writes the next loop iteration can start: the file name, the
\* bytes, and the raw directory as it is when the dedup file is opened.
PendingWrites ==
    IF phase = "persist" /\ pi <= Len(results) /\ results[pi].res.ok
    THEN LET res == results[pi].res
             name == DedupName(res.sha1, res.ext)
         IN IF name \in DOMAIN store THEN {}
            ELSE IF cfg.script = "dedupe"
            THEN {[name |-> name, data |-> res.data[1], raw |-> raw]}
            ELSE {[name |-> name, data |-> r3.body, raw |-> raw] : r3 \in OkResponses}
    ELSE IF phase = "wayback" /\ pi <= Len(Worklist)
    THEN LET u == Worklist[pi]
             W == {[name |-> DedupName(sha1_bytes(r.body), guess_ext(u, r.ctype)),
                    data |-> r.body,
                    raw |-> WriteIfAbsent(raw,
                              <<safe_filename(u), guess_ext(u, r.ctype)>>, r.body)] :
                   r \in {x \in OkResponses : x.body # <<>>}}
         IN {w \in W : w.name \notin DOMAIN store}
    ELSE {}

\* The operator stops the run inside `open(path, "wb")` ... `f.write(data)`
\* of a dedup file: the file exists and holds only the bytes written so far.
InterruptedWrite ==
    /\ \E w \in PendingWrites :
        \E written \in ProperPrefixes(w.data) :
            /\ store' = Assign(store, w.name, written)
            /\ raw' = w.raw
    /\ Forget
    /\ UNCHANGED <<manifest, unique, transport, cfg, ledger, url_map>>

\* the steps of the fetch engine: the pool's threads and the loop of main()
\* that collects their results
Engine ==
    \/ \E u \in WorkSet : Start(u)
    \/ \E u \in WorkSet : FetchOnce(u)
    \/ \E u \in WorkSet : HttpFallback(u)
    \/ \E u \in WorkSet : Backoff(u)
    \/ \E u \in WorkSet : FetchUrlAttempt(u)
    \/ \E u \in WorkSet : FetchUrlBackoff(u)
    \/ \E u \in WorkSet : Collect(u)
    \/ JoinPool

\* the steps of a run nobody stops
Run ==
    \/ Engine
    \/ PersistDedupe
    \/ PersistDedup
    \/ FinishDedupe
    \/ FinishDedup
    \/ WaybackStep
    \/ FinishWayback

Next == Run \/ Interrupt \/ InterruptedWrite

Spec == Init /\ [][Next]_vars

\* The fetch engine of the two pool downloaders on its own, with nobody
\* stopping the run
FairInit == Init /\ cfg.script \in PoolScripts

\* the pool's threads and the main thread get to run, so the engine does
\* not halt while one of its steps is possible
FairSpec ==
    /\ FairInit
    /\ [][Engine]_vars
    /\ WF_vars(Engine)

\* ------------------------------------------------------------------ manifest
\* no fetch script has been started
NoCfg == [script |-> "manifest", retries |-> 0, workers |-> 0, force_http |-> FALSE]

\* The manifest builder is started on one of the inputs.
ManifestInit ==
    /\ manifest \in {NewManifest(input) : input \in Inputs}
    /\ cfg = NoCfg
    /\ unique = <<>>
    /\ transport = Transport("off", <<>>, <<>>, <<>>)
    /\ phase = "manifest"
    /\ pc = <<>>
    /\ attempt = <<>>
    /\ last_err = <<>>
    /\ ret = <<>>
    /\ net = <<>>
    /\ delay = <<>>
    /\ results = <<>>
    /\ failures = <<>>
    /\ pi = 1
    /\ chosen_to_new = <<>>
    /\ dedup_written = 0
    /\ store = <<>>
    /\ raw = <<>>
    /\ ledger = <<>>
    /\ url_map = <<>>

\* manifest builder, main(): the next <img> reference of the input
BuildRow ==
    /\ phase = "manifest"
    /\ Len(manifest.rows) < Len(manifest.input)
    /\ manifest' = AddRow(manifest)
    /\ UNCHANGED <<unique, transport, cfg, phase, workerVars, mainVars, diskVars>>

\* manifest builder, main(): the input is read; write image_urls_unique.csv
EmitUnique ==
    /\ phase = "manifest"
    /\ Len(manifest.rows) = Len(manifest.input)
    /\ manifest' = EmitUniqueCsv(manifest)
    /\ phase' = "emitted"
    /\ UNCHANGED <<unique, transport, cfg, workerVars, mainVars, diskVars>>

\* the command lines dedupe is started with after the builder
PipeConfigs ==
    {c \in Configs : c.script = "dedupe" /\ c.retries = 0
                        /\ c.workers = 1 /\ ~c.force_http}

\* A fetch script is started on the builder's files: it loads `unique`,
\* returns at once if that is empty, and else submits every URL of it to the
\* pool.
Launch ==
    /\ phase = "emitted"
    /\ \E c \in PipeConfigs :
        LET loaded == LoadUnique(c.script, UniqRows(manifest))
            urls == {loaded[i] : i \in 1..Len(loaded)}
        IN /\ cfg' = c
           /\ unique' = loaded
           /\ IF urls = {}
              THEN /\ phase' = "done"
                   /\ UNCHANGED <<transport, workerVars>>
              ELSE /\ phase' = IF c.script = "wayback" THEN "wayback" ELSE "fetch"
                   /\ transport' = Transport("off", [u \in urls |-> <<>>],
                                             [u \in urls |-> 0], <<>>)
                   /\ pc' = [u \in urls |-> "queued"]
                   /\ attempt' = [u \in urls |-> 0]
                   /\ last_err' = [u \in urls |-> <<>>]
                   /\ ret' = [u \in urls |-> NoResult]
                   /\ net' = [u \in urls |-> NoNet]
                   /\ delay' = [u \in urls |-> 0]
    /\ UNCHANGED <<manifest, mainVars, diskVars>>

\* the manifest builder on its own, on every input
ManifestSpec == ManifestInit /\ [][BuildRow \/ EmitUnique]_vars

\* the steps of the manifest builder and of dedupe started after it
PipelineNext ==
    \/ BuildRow
    \/ EmitUnique
    \/ Launch
    \/ \E u \in WorkSet : Start(u)
    \/ \E u \in WorkSet : FetchOnce(u)
    \/ \E u \in WorkSet : Backoff(u)
    \/ \E u \in WorkSet : Collect(u)
    \/ JoinPool
    \/ PersistDedupe
    \/ FinishDedupe

\* the manifest builder on every input, and then dedupe on its files
PipelineSpec == ManifestInit /\ [][PipelineNext]_vars

\* ------------------------------------------------------------------ guess_ext
\* guess_ext is applied to at most MaxGuesses responses
MaxGuesses == 2

\* the URLs and the Content-Type headers guess_ext is called with
GuessUrls ==
    {Url("https", "a", ".jpg"), Url("https", "a", ".jpeg"),
     Url("https", "a", ".JPG"), Url("https", "a", ".png"),
     Url("https", "a", "-popup"),
     WithRest(Url("https", "a", "-popup"), <<"?", ".jpg">>)}

GuessCTypes ==
    {"", "image/png", "image/jpeg", "Image/PNG; charset=binary", "text/html",
     "application/octet-stream", "application/x-unknown"}

\* nothing has been fetched yet
GuessInit ==
    /\ manifest = NewManifest(<<>>)
    /\ cfg = [NoCfg EXCEPT !.script = "guess_ext"]
    /\ unique = <<>>
    /\ transport = Transport("off", <<>>, <<>>, <<>>)
    /\ phase = "guess"
    /\ pc = <<>>
    /\ attempt = <<>>
    /\ last_err = <<>>
    /\ ret = <<>>
    /\ net = <<>>
    /\ delay = <<>>
    /\ results = <<>>
    /\ failures = <<>>
    /\ pi = 1
    /\ chosen_to_new = <<>>
    /\ dedup_written = 0
    /\ store = <<>>
    /\ raw = <<>>
    /\ ledger = <<>>
    /\ url_map = <<>>

\* fetch_once(): ext = guess_ext(url, ctype), for a response to the request
\* of some URL with some Content-Type header
GuessExt ==
    /\ phase = "guess"
    /\ Len(results) < MaxGuesses
    /\ \E url \in GuessUrls, ctype \in GuessCTypes :
          results' = Append(results,
              [url |-> url,
               res |-> [content_type |-> ctype, ext |-> guess_ext(url, ctype)]])
    /\ UNCHANGED <<manifest, unique, transport, cfg, phase, workerVars,
                   failures, pi, chosen_to_new, dedup_written, diskVars>>

\* guess_ext on its own, on every URL and content type
GuessSpec == GuessInit /\ [][GuessExt]_vars

\* ------------------------------------------------------------------ archive maps
\* 04d_build_wayback_map.py and 04d_build_wayback_popup_map.py read
\* image_manifest.csv and write url_map_wayback.csv without fetching.
\* the manifests they are run on have at most MaxMapRows rows
MaxMapRows == 2

\* the <img> references of those manifests: some are local files
MapThumbPool ==
    {NoUrl, Url("https", "a", "-320wi"), Url("file", "a", "-320wi"),
     Url("file", "a", ".jpg")}

MapLinkPool ==
    {NoUrl, Url("https", "b", ".jpg"), Url("file", "b", ".jpg"),
     Url("FILE", "b", ".jpg")}

MapInputs ==
    UNION {[1..n -> [src : MapThumbPool, link_href : MapLinkPool]] :
               n \in 0..MaxMapRows}

\* --snapshot and --limit of the command line
Snapshots == {"20250912000156"}

Limits == {0, 1}

MapScripts == {"wayback_map", "popup_map"}

\* str.lower() of the scheme of a URL
LowerScheme(s) == CASE s = "FILE" -> "file" [] OTHER -> s

\* (mutant) no URL is taken for a local file
startswith_nothing(orig) == FALSE

\* orig.lower().startswith("file://")
startswith_file(orig) == LowerScheme(orig.scheme) = "file"

\* f"https://web.archive.org/web/{args.snapshot}im_/{url}"
wayback_im_url(snapshot, url) ==
    [host |-> "web.archive.org", snapshot |-> snapshot, flag |-> "im_",
     url |-> url]

\* the rows of url_map_wayback.csv written so far, under the header
MapRows == url_map[1]

\* the `for field in (...)` loop of both scripts: one CSV row for each
\* field of the row that is neither empty nor a file:// URL
FieldRows(row, new_url) ==
    LET F[k \in 0..Len(Fields)] ==
            IF k = 0 THEN <<>>
            ELSE LET orig == row[Fields[k]]
                     written == F[k - 1]
                 IN IF ~Present(orig) \/ startswith_file(orig)
                    THEN written
                    ELSE Append(written,
                                [original_url |-> orig, new_url |-> new_url,
                                 kind |-> row.chosen_kind])
    IN F[Len(Fields)]

\* miss_rows of 04d_build_wayback_map.py after n rows have been read
miss_rows(n) ==
    Cardinality({k \in 1..n : ~Present(Occurrences[k].chosen_download_url)})

\* `if args.limit and count >= args.limit: break`
LimitReached(count) == cfg.limit # 0 /\ count >= cfg.limit

\* One of the two scripts is started on the manifest of one of the inputs;
\* the output file is open and holds its header.
MapInit ==
    /\ manifest \in {[NewManifest(imgs) EXCEPT
                         !.rows = [k \in 1..Len(imgs) |-> OccRow(imgs[k])]] :
                     imgs \in MapInputs}
    /\ cfg \in [script : MapScripts, snapshot : Snapshots, limit : Limits]
    /\ unique = <<>>
    /\ transport = Transport("off", <<>>, <<>>, <<>>)
    /\ phase = "map"
    /\ pc = <<>>
    /\ attempt = <<>>
    /\ last_err = <<>>
    /\ ret = <<>>
    /\ net = <<>>
    /\ delay = <<>>
    /\ results = <<>>
    /\ failures = <<>>
    /\ pi = 1
    /\ chosen_to_new = <<>>
    /\ dedup_written = 0
    /\ store = <<>>
    /\ raw = <<>>
    /\ ledger = <<>>
    /\ url_map = << <<>> >>

\* 04d_build_wayback_map.py, main(): one iteration of `for row in rdr`
WaybackMapRow ==
    /\ phase = "map"
    /\ cfg.script = "wayback_map"
    /\ pi <= Len(Occurrences)
    /\ LET row == Occurrences[pi]
           chosen == row.chosen_download_url
           wayback_url == wayback_im_url(cfg.snapshot, chosen)
           rows == IF ~Present(chosen) THEN MapRows
                   ELSE MapRows \o FieldRows(row, wayback_url)
       IN /\ url_map' = <<rows>>
          /\ pi' = pi + 1
          /\ phase' = IF LimitReached(Len(rows) + miss_rows(pi))
                      THEN "mapped" ELSE "map"
    /\ UNCHANGED <<manifest, unique, transport, cfg, workerVars, results,
                   failures, chosen_to_new, dedup_written, store, raw, ledger>>

\* 04d_build_wayback_popup_map.py, main(): one iteration of `for row in rdr`
PopupMapRow ==
    /\ phase = "map"
    /\ cfg.script = "popup_map"
    /\ pi <= Len(Occurrences)
    /\ LET row == Occurrences[pi]
           full == row.full_url
           new_url == wayback_im_url(cfg.snapshot, full)
           skip == ~Present(full) \/ startswith_file(full)
       IN /\ url_map' = IF skip THEN url_map
                        ELSE <<MapRows \o FieldRows(row, new_url)>>
          /\ pi' = pi + 1
          /\ phase' = IF ~skip /\ LimitReached(pi) THEN "mapped" ELSE "map"
    /\ UNCHANGED <<manifest, unique, transport, cfg, workerVars, results,
                   failures, chosen_to_new, dedup_written, store, raw, ledger>>

\* both scripts: the manifest is read to its end; the output is closed
MapDone ==
    /\ phase = "map"
    /\ pi > Len(Occurrences)
    /\ phase' = "mapped"
    /\ UNCHANGED <<manifest, unique, transport, cfg, workerVars, mainVars,
                   diskVars>>

\* the two archive map builders on every manifest
MapSpec == MapInit /\ [][WaybackMapRow \/ PopupMapRow \/ MapDone]_vars

\* ------------------------------------------------------------------ second run
\* the command lines of the runs that are repeated
RerunConfigs ==
    {c \in Configs : /\ c.retries = 0
                      /\ ~c.force_http
                      /\ (c.script \in PoolScripts => c.workers = 1)}

\* the images of the repeated runs: dedup, which asks the network three
\* times for a URL it stores, is repeated on the first image alone
RerunImages(script) ==
    IF script = "dedup" THEN SubSeq(Images, 1, 1) ELSE Images

\* as Init, with the answers of the network being recorded
RerunInit ==
    /\ cfg \in RerunConfigs
    /\ manifest = Built(RerunImages(cfg.script))
    /\ unique = LoadUnique(cfg.script, UniqRows(manifest))
    /\ transport = Transport("rec", [u \in WorkSet |-> <<>>],
                             [u \in WorkSet |-> 0], <<>>)
    /\ phase = IF cfg.script = "wayback" THEN "wayback" ELSE "fetch"
    /\ pc = [u \in WorkSet |-> "queued"]
    /\ attempt = [u \in WorkSet |-> 0]
    /\ last_err = [u \in WorkSet |-> <<>>]
    /\ ret = [u \in WorkSet |-> NoResult]
    /\ net = [u \in WorkSet |-> NoNet]
    /\ delay = [u \in WorkSet |-> 0]
    /\ results = <<>>
    /\ failures = <<>>
    /\ pi = 1
    /\ chosen_to_new = <<>>
    /\ dedup_written = 0
    /\ store = <<>>
    /\ raw = <<>>
    /\ ledger = <<>>
    /\ url_map = <<>>

\* The same command line is run again after the run has ended: the files
\* are as the first run left them, and the network answers as it did.
Rerun ==
    /\ phase = "done"
    /\ transport.mode = "rec"
    /\ transport' = Transport("play", transport.log, [u \in WorkSet |-> 0],
                              <<[url_map |-> url_map, store |-> store]>>)
    /\ phase' = IF cfg.script = "wayback" THEN "wayback" ELSE "fetch"
    /\ pc' = [u \in WorkSet |-> "queued"]
    /\ attempt' = [u \in WorkSet |-> 0]
    /\ last_err' = [u \in WorkSet |-> <<>>]
    /\ ret' = [u \in WorkSet |-> NoResult]
    /\ net' = [u \in WorkSet |-> NoNet]
    /\ delay' = [u \in WorkSet |-> 0]
    /\ results' = <<>>
    /\ failures' = <<>>
    /\ pi' = 1
    /\ chosen_to_new' = <<>>
    /\ dedup_written' = 0
    /\ UNCHANGED <<manifest, unique, cfg, diskVars>>

\* the steps of the runs without retries, and the start of the second run
RerunNext ==
    \/ \E u \in WorkSet : Start(u)
    \/ \E u \in WorkSet : FetchOnce(u)
    \/ \E u \in WorkSet : Backoff(u)
    \/ \E u \in WorkSet : FetchUrlAttempt(u)
    \/ \E u \in WorkSet : Collect(u)
    \/ JoinPool
    \/ PersistDedupe
    \/ PersistDedup
    \/ FinishDedupe
    \/ FinishDedup
    \/ WaybackStep
    \/ FinishWayback
    \/ Rerun

\* a run and its repetition, with nobody stopping them
RerunSpec == RerunInit /\ [][RerunNext]_vars

\* ------------------------------------------------------------------ claims
\* the pool has been left: main() is past the `with ThreadPoolExecutor` block
PoolLeft == cfg.script \in PoolScripts /\ phase \in {"persist", "done"}

\* the rows of the failures CSV on disk
LedgerRows == IF ledger = <<>> THEN <<>> ELSE ledger[1]

InLedger(u) == \E i \in 1..Len(LedgerRows) : LedgerRows[i].url = u

\* C1: once the thread-pool fetch phase is over, `results` holds exactly one
\* outcome for every worklist URL, and it is the success or the failure that
\* URL's fetch()/fetch_url() call returned.
C1_OneOutcomePerUrl ==
    PoolLeft =>
        /\ \A i \in 1..Len(results) : results[i].url \in WorkSet
        /\ \A u \in WorkSet :
            /\ Cardinality({i \in 1..Len(results) : results[i].url = u}) = 1
            /\ \A i \in 1..Len(results) :
                 results[i].url = u =>
                    /\ results[i].res = ret[u]
                    /\ results[i].res # NoResult
                    /\ results[i].res.ok => results[i].res.sha1 # ""
                    /\ ~results[i].res.ok => results[i].res.error # <<>>

C1_Witness ==
    /\ PoolLeft
    /\ Len(results) = Len(Worklist)
    /\ \E i, j \in 1..Len(results) : results[i].res.ok /\ ~results[j].res.ok

\* C2: under fair scheduling, whatever the transport answers, every worklist
\* URL gets its terminal outcome and the fetch engine completes.
C2_EngineCompletes ==
    <>(PoolLeft /\ AllCollected /\ \A u \in WorkSet : ret[u] # NoResult)

C2_Witness ==
    /\ PoolLeft
    /\ cfg.retries = MaxRetries
    /\ \E u \in WorkSet : ~ret[u].ok /\ net[u].run5xx = MaxRetries + 1
    /\ \E u \in WorkSet : ret[u].ok

\* u has a stored asset: a file of the dedup store recorded for it
Stored(u) ==
    u \in DOMAIN chosen_to_new /\ chosen_to_new[u].filename \in DOMAIN store

\* the first error of an error text is a client error (4xx)
Got4xx(error) == error # <<>> /\ error[1][1] = "http" /\ Is4xx(error[1][2])

\* C3: a URL answered with a 4xx is not retried: its call does not go on to
\* a sleep or another request, and its failure-ledger row carries the 4xx
\* status.
C3_ClientErrorIsTerminal ==
    /\ \A u \in WorkSet :
          pc[u] \in {"attempt", "fallback", "sleep"} => ~Got4xx(last_err[u])
    /\ \A i \in 1..Len(LedgerRows) :
          Got4xx(LedgerRows[i].error) =>
              LedgerRows[i].status = LedgerRows[i].error[1][2]

\* C4: a URL whose every attempt got a 5xx has been attempted exactly
\* retries + 1 times when its call returns, the call returns a failure with
\* the 5xx error of the last attempt, and at the end of the run the failure
\* ledger holds a row for the URL with that error.
C4_ServerErrorRetryCeiling ==
    cfg.script \in PoolScripts =>
        \A u \in WorkSet :
            (pc[u] \in {"returned", "collected"} /\ net[u].run5xx >= 0) =>
                /\ net[u].run5xx = cfg.retries + 1
                /\ ~ret[u].ok
                /\ ret[u].error # <<>>
                /\ ret[u].error[Len(ret[u].error)][1] = "http"
                /\ Is5xx(ret[u].error[Len(ret[u].error)][2])
                /\ phase = "done" =>
                     \E i \in 1..Len(LedgerRows) :
                        /\ LedgerRows[i].url = u
                        /\ LedgerRows[i].error = ret[u].error

C4_Witness ==
    /\ phase = "done"
    /\ cfg.retries = MaxRetries
    /\ \E u \in WorkSet : net[u].run5xx = MaxRetries + 1 /\ InLedger(u)

\* C5: in dedupe, two URLs whose successful fetches returned the same bytes
\* get the same stored file name, and one file of the store holds them.
C5_SameBytesOneFile ==
    (cfg.script = "dedupe" /\ phase = "done") =>
        \A u1, u2 \in DOMAIN chosen_to_new :
            chosen_to_new[u1].sha1 = chosen_to_new[u2].sha1 =>
                /\ chosen_to_new[u1].filename = chosen_to_new[u2].filename
                /\ Cardinality({f \in DOMAIN store :
                                  f[1] = chosen_to_new[u1].sha1}) = 1

\* C6: while a run is not stopped, every file of the dedup store is named
\* by the sha1 of the bytes it holds.
C6_NameIsHashOfContent ==
    phase # "stopped" =>
        \A f \in DOMAIN store : f[1] = sha1_bytes(store[f])

\* C7: no step deletes a dedup file or changes the bytes of one that exists.
C7_WriteOnce ==
    [][\A f \in DOMAIN store : f \in DOMAIN store' /\ store'[f] = store[f]]_vars

C7_Witness ==
    /\ phase = "done"
    /\ Cardinality(DOMAIN chosen_to_new) = 2
    /\ Cardinality(DOMAIN store) = 1
    /\ cfg.script = "dedup" => dedup_written = 1 /\ failures = <<>>

\* C8: after dedupe is stopped, also in the middle of writing a file, every
\* file of the dedup store is complete and named by the sha1 of its bytes.
C8_NoCorruptFileAfterStop ==
    (cfg.script = "dedupe" /\ phase = "stopped") =>
        \A f \in DOMAIN store : f[1] = sha1_bytes(store[f])

\* C9: at the end of a run, no URL of the failure ledger is a key of
\* chosen_to_new, the URLs whose occurrence rows are expanded into the
\* rewrite table.
C9_FailedNotInRewrite ==
    phase = "done" =>
        \A k \in 1..Len(Occurrences) :
            InLedger(Occurrences[k].chosen_download_url) =>
                Occurrences[k].chosen_download_url \notin DOMAIN chosen_to_new

\* C10: at the end of a run, every worklist URL without a stored asset has a
\* row in the failure ledger, and every row gives a reason.
C10_LedgerCoversUnstored ==
    phase = "done" =>
        /\ \A u \in WorkSet : Stored(u) \/ InLedger(u)
        /\ \A i \in 1..Len(LedgerRows) : LedgerRows[i].error # <<>>

C10_Witness ==
    /\ phase = "done"
    /\ \E u \in WorkSet : Stored(u) /\ ~InLedger(u)
    /\ \E u \in WorkSet : ~Stored(u) /\ InLedger(u)

\* the rows of the rewrite table on disk: original URL -> entry
RewriteTable == IF url_map = <<>> THEN <<>> ELSE url_map[1]

\* the non-empty URL fields of one occurrence row
RowUrls(row) ==
    {row.thumb_url, row.full_url, row.inferred_full_url,
     row.chosen_download_url} \ {NoUrl}

\* the entries of the rewrite table whose original URL is a field of row
EntriesOf(row) == DOMAIN RewriteTable \cap RowUrls(row)

\* C11: at the end of a run, every original URL of the rewrite table is
\* non-empty and is a URL field of some occurrence row, and every occurrence
\* whose chosen URL has a stored asset has an entry for one of its URLs.
C11_RewriteEntriesFromOccurrences ==
    phase = "done" =>
        /\ \A o \in DOMAIN RewriteTable :
              /\ o # NoUrl
              /\ \E k \in 1..Len(Occurrences) : o \in RowUrls(Occurrences[k])
        /\ \A k \in 1..Len(Occurrences) :
              Stored(Occurrences[k].chosen_download_url) =>
                  EntriesOf(Occurrences[k]) # {}

C11_Witness ==
    /\ phase = "done"
    /\ \E k \in 1..Len(Occurrences) :
          /\ Stored(Occurrences[k].chosen_download_url)
          /\ Occurrences[k].full_url = NoUrl
          /\ Cardinality(EntriesOf(Occurrences[k])) = 2
    /\ \E k \in 1..Len(Occurrences) :
          /\ Occurrences[k].chosen_download_url # NoUrl
          /\ ~Stored(Occurrences[k].chosen_download_url)
          /\ Occurrences[k].chosen_download_url \notin DOMAIN RewriteTable

\* an occurrence with a size-suffixed thumbnail and no explicit full URL
IsScenarioA(row) ==
    /\ row.thumb_url # NoUrl
    /\ row.thumb_url.tail \in SizeTails
    /\ row.full_url = NoUrl

\* the asset stored for a successful dedupe fetch of u: named by the sha1 of
\* the returned bytes and the extension, and holding those bytes
AssetOf(u) == <<sha1_bytes(ret[u].data[1]), ret[u].ext>>

ScenarioAStored(row) ==
    /\ row.inferred_full_url = [row.thumb_url EXCEPT !.tail = "-popup"]
    /\ row.chosen_download_url = row.inferred_full_url
    /\ (cfg.script = "dedupe" /\ phase = "done"
            /\ ret[row.chosen_download_url].ok) =>
          /\ AssetOf(row.chosen_download_url) \in DOMAIN store
          /\ store[AssetOf(row.chosen_download_url)]
                = ret[row.chosen_download_url].data[1]
          /\ \A o \in EntriesOf(row) :
                RewriteTable[o].filename = AssetOf(row.chosen_download_url)

C13_ExplicitFullWins ==
    \A k \in 1..Len(manifest.rows) :
        manifest.rows[k].full_url # NoUrl =>
            /\ manifest.rows[k].chosen_download_url = manifest.rows[k].full_url
            /\ manifest.rows[k].chosen_kind = "full"

C13_Witness ==
    \E k \in 1..Len(manifest.rows) :
        /\ manifest.rows[k].full_url # NoUrl
        /\ manifest.rows[k].inferred_full_url # NoUrl
        /\ manifest.rows[k].chosen_kind = "full"

\* the path of src ends with a size suffix, which is the end of the URL or
\* stands right before ? or #
EndsWithSizeSuffix(src) ==
    /\ src # NoUrl
    /\ src.tail \in SizeTails
    /\ src.rest = <<>> \/ src.rest[1] \in Separators

\* C14: for every row with no explicit full URL whose thumbnail ends with a
\* size suffix, the inferred full URL is the thumbnail with that suffix
\* replaced by -popup and nothing else changed, and it is the chosen URL,
\* with kind "inferred_full".
C14_SuffixReplacedNothingElse ==
    \A k \in 1..Len(manifest.rows) :
        (/\ manifest.rows[k].full_url = NoUrl
         /\ EndsWithSizeSuffix(manifest.rows[k].thumb_url)) =>
            /\ manifest.rows[k].inferred_full_url
                 = [manifest.rows[k].thumb_url EXCEPT !.tail = "-popup"]
            /\ manifest.rows[k].chosen_download_url
                 = manifest.rows[k].inferred_full_url
            /\ manifest.rows[k].chosen_kind = "inferred_full"

\* the URLs of the rows of image_urls_unique.csv, in order
UniqUrls == [i \in 1..Len(UniqRows(manifest)) |-> UniqRows(manifest)[i].url]

\* the URLs dedupe has a result for
ResultUrls == {results[i].url : i \in 1..Len(results)}

\* C15: a row with no explicit and no inferred full URL has its thumbnail as
\* chosen URL, with kind "thumb", if it has a thumbnail, and else the empty
\* chosen URL with kind "none"; the empty URL is not in `unique`, not in
\* image_urls_unique.csv, not in the worklist of dedupe, and is not fetched.
C15_ThumbOrNone ==
    /\ \A k \in 1..Len(manifest.rows) :
          (/\ manifest.rows[k].full_url = NoUrl
           /\ manifest.rows[k].inferred_full_url = NoUrl) =>
              IF manifest.rows[k].thumb_url # NoUrl
              THEN /\ manifest.rows[k].chosen_download_url
                        = manifest.rows[k].thumb_url
                   /\ manifest.rows[k].chosen_kind = "thumb"
              ELSE /\ manifest.rows[k].chosen_download_url = NoUrl
                   /\ manifest.rows[k].chosen_kind = "none"
    /\ \A i \in 1..Len(manifest.unique) : manifest.unique[i].url # NoUrl
    /\ \A i \in 1..Len(UniqUrls) : UniqUrls[i] # NoUrl
    /\ NoUrl \notin WorkSet
    /\ NoUrl \notin DOMAIN pc
    /\ NoUrl \notin ResultUrls
    /\ NoUrl \notin DOMAIN chosen_to_new

C15_Witness ==
    /\ phase = "done"
    /\ results # <<>>
    /\ \E k \in 1..Len(manifest.rows) : manifest.rows[k].chosen_kind = "none"
    /\ \E k \in 1..Len(manifest.rows) : manifest.rows[k].chosen_kind = "thumb"

\* no value occurs twice in the sequence
Distinct(seq) == \A i, j \in 1..Len(seq) : seq[i] = seq[j] => i = j

\* image_urls_unique.csv and the worklist hold no URL twice, one call is
\* submitted to the pool for each worklist URL, and at the end of the run
\* each worklist URL has one result
OncePerUrl ==
    /\ Distinct(UniqUrls)
    /\ Distinct(Worklist)
    /\ phase \in {"fetch", "persist", "done"} => DOMAIN pc = WorkSet
    /\ phase \in {"persist", "done"} =>
          /\ Len(results) = Cardinality(WorkSet)
          /\ ResultUrls = WorkSet

\* a call that has been taken by a worker is not queued again
StartedOnce ==
    \A u \in DOMAIN pc :
        pc[u] # "queued" => u \in DOMAIN pc' /\ pc'[u] # "queued"

\* C16: whatever the occurrence records are, the worklist holds each
\* canonical URL once, however many occurrences chose it, and each worklist
\* URL is submitted to the pool and fetched once.
C16_WorklistHasNoDuplicates == [](OncePerUrl) /\ [][StartedOnce]_vars

C16_Witness ==
    /\ phase = "done"
    /\ Len(manifest.rows) = 2
    /\ manifest.rows[1].chosen_download_url = manifest.rows[2].chosen_download_url
    /\ Len(Worklist) = 1
    /\ Len(results) = 1

\* C17: in the second run of the same command line, with the inputs and
\* the answers of the network unchanged and the directories as the first run
\* left them, no dedup file is written, and the rewrite table written at the
\* end is the one the first run wrote.
C17_SecondRunIdempotent ==
    transport.mode = "play" =>
        /\ dedup_written = 0
        /\ store = transport.first[1].store
        /\ phase = "done" => url_map = transport.first[1].url_map

C17_Witness ==
    /\ transport.mode = "play"
    /\ phase = "done"
    /\ store # <<>>
    /\ RewriteTable # <<>>
    /\ failures # <<>>

\* C18: every run that ends has written a rewrite table and a failure
\* ledger.
C18_RunEmitsTableAndLedger ==
    phase = "done" => url_map # <<>> /\ ledger # <<>>

\* the direct fetch of u has ended in a failure that is not a client error
DirectFailedForGood(u) ==
    /\ ret[u] # NoResult
    /\ ~ret[u].ok
    /\ ~Got4xx(ret[u].error)

\* C19: the snapshot index is queried for a URL only after the direct fetch
\* of that URL has failed for good with an error that is not a client error.
C19_LookupOnlyAfterDirectFailure ==
    \A u \in WorkSet : net[u].lookups > 0 => DirectFailedForGood(u)

\* C20: in the pool downloaders, which have no archive fallback, no query
\* of the snapshot index is issued, and a URL whose every attempt ended in a
\* connection error or timeout has been attempted retries + 1 times when its
\* call returns, is a failure with status 0 and that error, and at the end
\* of the run has a failure-ledger row with status 0 and that error.
C20_TimeoutsEndInLedger ==
    cfg.script \in PoolScripts =>
        \A u \in WorkSet :
            /\ net[u].lookups = 0
            /\ (pc[u] \in {"returned", "collected"} /\ net[u].runUrlErr >= 0) =>
                /\ net[u].runUrlErr = cfg.retries + 1
                /\ ~ret[u].ok
                /\ ret[u].status = 0
                /\ ret[u].error # <<>>
                /\ ret[u].error[Len(ret[u].error)] = <<"url", 0>>
                /\ phase = "done" =>
                     \E i \in 1..Len(LedgerRows) :
                        /\ LedgerRows[i].url = u
                        /\ LedgerRows[i].status = 0
                        /\ LedgerRows[i].error = ret[u].error

C20_Witness ==
    /\ phase = "done"
    /\ cfg.retries = MaxRetries
    /\ \E u \in WorkSet :
          /\ net[u].runUrlErr = MaxRetries + 1
          /\ InLedger(u)
          /\ net[u].lookups = 0

\* the retrieval locations used for u: the one its bytes were fetched from,
\* or the one whose fetch failed
WbUsed(u) ==
    {chosen_to_new[v].new_url : v \in DOMAIN chosen_to_new \cap {u}}
        \cup {[ts |-> failures[i].error[1][2], url |-> u] :
                 i \in {j \in 1..Len(failures) :
                          /\ failures[j].url = u
                          /\ failures[j].error[1][1] = "wb_fetch_fail"}}

\* the snapshot index answered the query for u with at least one snapshot
HasSnapshots(u) ==
    /\ net[u].cdx # <<>>
    /\ net[u].cdx[1].status = 200
    /\ net[u].cdx[1].rows # {}

\* C21: when the snapshot index answers the query for a URL with one or more
\* snapshots, the one retrieval location used for that URL is the id_ form
\* of the newest capture timestamp of the answer followed by the URL
\* itself; no other timestamp of the answer is used.
C21_NewestSnapshotUsed ==
    cfg.script = "wayback" =>
        \A u \in WorkSet :
            HasSnapshots(u) =>
                /\ Cardinality(WbUsed(u)) = 1
                /\ \A wb \in WbUsed(u) :
                      /\ wb.url = u
                      /\ wb.ts \in net[u].cdx[1].rows
                      /\ \A t \in net[u].cdx[1].rows : t <= wb.ts

C21_Witness ==
    /\ cfg.script = "wayback"
    /\ \E u \in WorkSet :
          /\ HasSnapshots(u)
          /\ Cardinality(net[u].cdx[1].rows) >= 2
          /\ u \in DOMAIN chosen_to_new
          /\ chosen_to_new[u].new_url.ts = MaxTs

\* the snapshot index answered the query for u, and had no snapshot of it
NoSnapshot(u) ==
    /\ net[u].cdx # <<>>
    /\ net[u].cdx[1].status = 200
    /\ net[u].cdx[1].rows = {}

\* u failed to resolve: nothing was requested from the archive for it, it
\* is in `fails` and, at the end of the run, in the failure ledger, and it
\* is not a key of chosen_map
ResolutionFailed(u) ==
    /\ net[u].archived = 0
    /\ WbUsed(u) = {}
    /\ \E i \in 1..Len(failures) : failures[i].url = u
    /\ u \notin DOMAIN chosen_to_new
    /\ phase = "done" => InLedger(u)

\* C22 (as stated): a URL the snapshot index has no snapshot of fails to
\* resolve: no archive location is fetched for it, it is recorded in the
\* failure ledger, and the rewrite table has no entry for it.
C22_MissHasNoEntry ==
    cfg.script = "wayback" =>
        \A u \in WorkSet :
            NoSnapshot(u) =>
                /\ ResolutionFailed(u)
                /\ u \notin DOMAIN RewriteTable

\* C22 (amended): as above, but the rewrite table has an entry for the URL
\* where the URL is also a field of an occurrence that chose another URL,
\* one with a stored asset; the entry names that asset.
C22_MissNotExpanded ==
    cfg.script = "wayback" =>
        \A u \in WorkSet :
            NoSnapshot(u) =>
                /\ ResolutionFailed(u)
                /\ u \in DOMAIN RewriteTable =>
                      \E k \in 1..Len(Occurrences) :
                          /\ u \in RowUrls(Occurrences[k])
                          /\ Occurrences[k].chosen_download_url # u
                          /\ Stored(Occurrences[k].chosen_download_url)
                          /\ RewriteTable[u].filename =
                                chosen_to_new[Occurrences[k].chosen_download_url].filename

C22_Witness ==
    /\ cfg.script = "wayback"
    /\ phase = "done"
    /\ \E u \in WorkSet :
          /\ NoSnapshot(u)
          /\ InLedger(u)
          /\ u \in DOMAIN RewriteTable

\* C23: over the whole fetch of one URL the http:// variant is requested at
\* most once, and only with the fallback configured, for an https:// URL,
\* after an attempt that failed with a TLS error.
C23_OneTlsFallback ==
    \A u \in WorkSet :
        /\ net[u].fallbacks <= 1
        /\ net[u].fallbacks > 0 =>
              /\ cfg.script = "dedupe"
              /\ cfg.force_http
              /\ u.scheme = "https"
        /\ pc[u] = "fallback" => MentionsSSL(last_err[u])

\* the last error of an error text
LastError(error) == error[Len(error)]

\* C24: in the failure ledger of a pool downloader, the status of a row
\* whose last failed attempt got an HTTP response is the code of that
\* response, and a status of 0 stands for a last attempt that got none.
C24_LedgerStatusIsLastCode ==
    cfg.script \in PoolScripts =>
        \A i \in 1..Len(LedgerRows) :
            LET row == LedgerRows[i]
            IN /\ row.error # <<>>
               /\ LastError(row.error)[1] = "http" =>
                     row.status = LastError(row.error)[2]
               /\ row.status = 0 => LastError(row.error)[1] # "http"

\* the delay after the first failed attempt, in seconds
BaseDelay == 1

\* C25: the sleep a call is in after the k-th request for its URL has
\* failed lasts k times the base delay, so the delays before attempts
\* 2, 3, ... are 1, 2, ... times the base delay.
C25_LinearBackoff ==
    \A u \in WorkSet :
        pc[u] = "sleep" =>
            /\ net[u].tries >= 1
            /\ delay[u] = net[u].tries * BaseDelay

C25_Witness ==
    \E u \in WorkSet :
        /\ pc[u] = "sleep"
        /\ net[u].tries = 2
        /\ delay[u] = 2 * BaseDelay
        /\ cfg.retries = 2

\* C26: no request is issued for a URL after its fetch()/fetch_url() call
\* has returned: the persist loop asks the network for nothing.
C26_NoRequestAfterOutcome ==
    \A u \in WorkSet :
        pc[u] \in {"returned", "collected"} => net[u].refetches = 0

\* the worklist URLs whose call returned a success with its bytes
FetchedUrls == {u \in WorkSet : ret[u].ok /\ ret[u].data # <<>>}

\* the dedup store as the outcomes of the calls determine it: for each
\* fetched URL the file named by the sha1 of its bytes and its extension,
\* holding those bytes
StoreOfOutcomes ==
    [f \in {AssetOf(u) : u \in FetchedUrls} |->
        LET u == CHOOSE v \in FetchedUrls : AssetOf(v) = f
        IN ret[u].data[1]]

\* chosen_to_new as the outcomes of the calls determine it
ChosenOfOutcomes ==
    [u \in FetchedUrls |->
        NewFile(AssetOf(u), "", ret[u].sha1, ret[u].bytes_len,
                ret[u].content_type)]

\* C27: at the end of a dedupe run the dedup store and the rewrite table
\* are what the occurrence rows and the outcomes of the calls determine, in
\* whatever order the calls returned and were collected.
C27_OrderIndependent ==
    (cfg.script = "dedupe" /\ phase = "done") =>
        /\ store = StoreOfOutcomes
        /\ url_map = <<ExpandMapping(ChosenOfOutcomes)>>

C27_Witness ==
    /\ cfg.script = "dedupe"
    /\ phase = "done"
    /\ Len(results) = 2
    /\ results[1].url = Worklist[2]
    /\ results[2].url = Worklist[1]
    /\ Cardinality(DOMAIN store) = 2
    /\ Cardinality(DOMAIN RewriteTable) = 3

\* the calls a worker has taken and that have not returned
InFlight == {u \in DOMAIN pc : pc[u] \notin {"queued", "returned", "collected"}}

\* C28: the calls in flight are never more than --workers, and never more
\* than one when --workers is less than 1, however many URLs are queued.
C28_InFlightBounded ==
    /\ cfg.workers >= 1 => Cardinality(InFlight) <= cfg.workers
    /\ cfg.workers < 1 => Cardinality(InFlight) <= 1

C28_Witness ==
    /\ phase = "fetch"
    /\ cfg.workers = 1
    /\ Cardinality(InFlight) = 1
    /\ \E u \in WorkSet : pc[u] = "queued"
    /\ \E u \in WorkSet : pc[u] = "sleep" /\ attempt[u] = 1

\* every worklist URL has its outcome and main() has left the pool
AllOutcomesIn ==
    /\ phase = "persist"
    /\ \A u \in WorkSet : pc[u] = "collected" /\ ret[u] # NoResult

\* C29: in the pool downloaders a step that creates or changes a file of
\* the dedup or the raw directory is a step of the persist loop, taken when
\* every worklist URL has its outcome; no step of the fetch phase does.
C29_WritesOnlyInPersist ==
    [][(cfg.script \in PoolScripts /\ (store' # store \/ raw' # raw))
          => AllOutcomesIn]_vars

C29_Witness ==
    /\ cfg.script \in PoolScripts
    /\ phase = "persist"
    /\ pi = 2
    /\ Len(results) = 2
    /\ store # <<>>
    /\ raw # <<>>
    /\ ~results[2].res.ok

\* the occurrence rows that are expanded and have o as one of their URLs
WritersOf(o) ==
    {k \in 1..Len(Occurrences) :
        /\ Occurrences[k].chosen_download_url \in DOMAIN chosen_to_new
        /\ o \in RowUrls(Occurrences[k])}

\* the first of them in the order of the occurrence records
FirstWriter(o) == CHOOSE k \in WritersOf(o) : \A j \in WritersOf(o) : k <= j

\* C30: at the end of a run, the entry of the rewrite table for an original
\* URL is the one of the first expanded occurrence row that has the URL,
\* with that row's asset and kind, whatever later rows with the URL point
\* at.
C30_FirstWriterWins ==
    phase = "done" =>
        \A o \in DOMAIN RewriteTable :
            /\ WritersOf(o) # {}
            /\ LET row == Occurrences[FirstWriter(o)]
               IN /\ RewriteTable[o].filename
                       = chosen_to_new[row.chosen_download_url].filename
                  /\ RewriteTable[o].sha1
                       = chosen_to_new[row.chosen_download_url].sha1
                  /\ RewriteTable[o].kind = row.chosen_kind

C30_Witness ==
    /\ phase = "done"
    /\ \E o \in DOMAIN RewriteTable :
          \E j, k \in WritersOf(o) :
              /\ j < k
              /\ chosen_to_new[Occurrences[j].chosen_download_url].filename
                   # chosen_to_new[Occurrences[k].chosen_download_url].filename
              /\ RewriteTable[o].filename
                   = chosen_to_new[Occurrences[j].chosen_download_url].filename

\* the new file of the chosen URL of occurrence row k
FileOfRow(k) == chosen_to_new[Occurrences[k].chosen_download_url].filename

CtYields(content_type) ==
    LET ext == IF content_type = "" THEN ""
               ELSE IF CT_EXT(CtNorm(content_type)) # ""
                    THEN CT_EXT(CtNorm(content_type))
               ELSE mimetypes_guess_extension(CtNorm(content_type))
    IN IF ext = ".bin" THEN "" ELSE ext

\* the extension the URL path suffix yields, "" if it yields none
PathYields(url) == IF PathExt(url) = ".jpeg" THEN ".jpg" ELSE PathExt(url)

\* C32: the extension guess_ext returns is the one the content type yields
\* whenever it yields one, the one the URL path suffix yields when the
\* content type is absent or yields nothing, and .bin only when neither the
\* content type nor the URL path suffix yields a known type.
C32_GuessExtPrecedence ==
    \A i \in 1..Len(results) :
        cfg.script = "guess_ext" =>
            LET url == results[i].url
                ctype == results[i].res.content_type
                ext == results[i].res.ext
            IN /\ CtYields(ctype) # "" => ext = CtYields(ctype)
               /\ (CtYields(ctype) = "" /\ PathYields(url) # "")
                     => ext = PathYields(url)
               /\ ext = ".bin" =>
                     /\ CtYields(ctype) = ""
                     /\ PathYields(url) = ""

\* the non-empty chosen URLs of the rows of the manifest
ChosenUrls ==
    {manifest.rows[k].chosen_download_url : k \in 1..Len(manifest.rows)} \ {NoUrl}

\* C33: image_urls_unique.csv holds the chosen URLs of the occurrences in
\* ascending order: its i-th URL is the chosen URL with i - 1 chosen URLs
\* before it in the order of URLs, so the sequence is fixed by the set of
\* the occurrences, in whatever order they were read.
C33_WorklistAscending ==
    manifest.uniq_csv # <<>> =>
        /\ Len(UniqUrls) = Cardinality(ChosenUrls)
        /\ \A i \in 1..Len(UniqUrls) :
              /\ UniqUrls[i] \in ChosenUrls
              /\ Cardinality({v \in ChosenUrls : UrlLess(v, UniqUrls[i])}) = i - 1

C33_Witness ==
    /\ manifest.uniq_csv # <<>>
    /\ Len(manifest.rows) = 2
    /\ Len(UniqUrls) = 2
    /\ UniqUrls[1] = manifest.rows[2].chosen_download_url
    /\ UniqUrls[2] = manifest.rows[1].chosen_download_url

\* the occurrences that selected url: the rows of the manifest it is the
\* chosen URL of
SelectedBy(url) ==
    {k \in 1..Len(manifest.rows) : manifest.rows[k].chosen_download_url = url}

\* C34 (as stated): each row of image_urls_unique.csv records, with its URL,
\* the set of all the occurrences that selected the URL.
C34_AllOccurrencesRecorded ==
    \A i \in 1..Len(UniqRows(manifest)) :
        {UniqRows(manifest)[i].val.example} = SelectedBy(UniqRows(manifest)[i].url)

\* C34 (amended): each row records one occurrence with its URL, the first
\* that selected it, and that occurrence's kind.
C34_FirstOccurrenceRecorded ==
    \A i \in 1..Len(UniqRows(manifest)) :
        LET row == UniqRows(manifest)[i]
        IN /\ row.val.example \in SelectedBy(row.url)
           /\ \A k \in SelectedBy(row.url) : row.val.example <= k
           /\ row.val.kind = manifest.rows[row.val.example].chosen_kind

C34_Witness ==
    /\ Len(UniqRows(manifest)) = 1
    /\ Cardinality(SelectedBy(UniqRows(manifest)[1].url)) = 2
    /\ UniqRows(manifest)[1].val.example = 1
    /\ manifest.rows[1].thumb_url # manifest.rows[2].thumb_url

\* ------------------------------------------------------------------ C35
\* a URL that refers to a local file, whatever the case of its scheme
FileReference(u) == u.scheme \in {"file", "FILE"}

\* the candidate URLs of an occurrence row
Candidates(row) == {row[Fields[k]] : k \in 1..Len(Fields)} \ {NoUrl}

OnlyFileCandidates(row) ==
    /\ Candidates(row) # {}
    /\ \A u \in Candidates(row) : FileReference(u)

\* C35: in the archive maps no row has a file:// original URL, and the
\* iteration on an occurrence whose only candidate URLs are file://
\* references writes no row.
C35_NoFileOriginals ==
    /\ [](phase \in {"map", "mapped"} =>
            \A k \in 1..Len(MapRows) : ~FileReference(MapRows[k].original_url))
    /\ [][(phase = "map" /\ pi <= Len(Occurrences)
             /\ OnlyFileCandidates(Occurrences[pi]))
          => url_map' = url_map]_vars

\* the map is written: the first occurrence had only file:// candidates,
\* the second a file:// link around a remote thumbnail, and rows were
\* written for the second
C35_Witness ==
    /\ phase = "mapped"
    /\ Len(Occurrences) = 2
    /\ pi = 3
    /\ OnlyFileCandidates(Occurrences[1])
    /\ FileReference(Occurrences[2].full_url)
    /\ ~FileReference(Occurrences[2].thumb_url)
    /\ Len(MapRows) > 0

\* ------------------------------------------------------------------ C36
\* C36: at the end of a run, the new_filename of every row of the rewrite
\* table is the name of a file of the dedup store.
C36_RewriteNamesExist ==
    phase = "done" =>
        \A o \in DOMAIN RewriteTable :
            RewriteTable[o].filename \in DOMAIN store

\* ------------------------------------------------------------------ C37
\* C37: in the pool scripts a call sleeps only between two attempts: a call
\* that is sleeping has an attempt left to make (attempts are numbered
\* 0..retries).
C37_BackoffOnlyBetweenAttempts ==
    (phase = "fetch" /\ cfg.script \in PoolScripts) =>
        \A u \in WorkSet : pc[u] = "sleep" => attempt[u] < cfg.retries

\* ------------------------------------------------------------------ C38
\* C38: in the archive fetcher, a URL recorded as no_wayback_snapshot is one
\* whose query the snapshot index answered, with no successful snapshot; a
\* query that ended in a transport or server error is not recorded so.
C38_MissMeansIndexAnswered ==
    cfg.script = "wayback" =>
        \A i \in 1..Len(failures) :
            failures[i].error = <<<<"no_wayback_snapshot", 0>>>> =>
                NoSnapshot(failures[i].url)

\* ------------------------------------------------------------------ C39
\* C39: in the archive map each original URL is in at most one row.
C39_OneRowPerOriginal ==
    phase \in {"map", "mapped"} =>
        \A i, j \in 1..Len(MapRows) :
            MapRows[i].original_url = MapRows[j].original_url => i = j

\* ------------------------------------------------------------------ C40
\* the canonical URL of an occurrence row: the chosen URL for
\* 04d_build_wayback_map.py, the explicit full URL for the popup script
Canonical(row) ==
    IF cfg.script = "popup_map" THEN row.full_url ELSE row.chosen_download_url

\* C40: in the archive map no new_url is an archive location of a file://
\* URL, and the iteration on an occurrence row whose canonical URL is a
\* file:// reference writes no row.
C40_NoArchiveOfFileUrl ==
    /\ [](phase \in {"map", "mapped"} =>
            \A k \in 1..Len(MapRows) : ~FileReference(MapRows[k].new_url.url))
    /\ [][(phase = "map" /\ pi <= Len(Occurrences)
             /\ FileReference(Canonical(Occurrences[pi])))
          => url_map' = url_map]_vars

====
